---- MODULE Spec2Model ----
(***************************************************************************)
(* DriftDetector of src/drift_detector.py: two statistical tests           *)
(* (chi-square on the label counts, two-sample Kolmogorov-Smirnov on the   *)
(* review lengths) whose verdicts are OR-ed into one report kept on the    *)
(* detector.                                                               *)
(*                                                                         *)
(* Python floats are modelled as fixed-point numbers in units of 1/Scale   *)
(* plus the two special values nan and +inf that numpy produces on a       *)
(* division by zero.  A pandas Series and the two recorded distributions   *)
(* are sequences of <<key, value>> pairs, so that their order is part of   *)
(* the model; the report itself is a function from its keys.               *)
(***************************************************************************)
EXTENDS Integers, Sequences, FiniteSets, TLC

\* ------------------------------------------------------------------ bounds
MaxRecords == 3
MaxTime == 2

\* ------------------------------------------------------------------ floats
Scale == 10000

Num(v) == [k |-> "num", v |-> v]
NaN == [k |-> "nan", v |-> 0]
PosInf == [k |-> "inf", v |-> 0]

\* Python's a < b on floats: every comparison with nan is False.
Lt(a, b) ==
    IF a.k = "nan" \/ b.k = "nan" THEN FALSE
    ELSE IF a.k = "inf" THEN FALSE
    ELSE IF b.k = "inf" THEN TRUE
    ELSE a.v < b.v

\* float(n / d) for integers n >= 0, d > 0
Ratio(n, d) == Num((n * Scale) \div d)

Abs(x) == IF x < 0 THEN -x ELSE x

RECURSIVE Gcd(_, _)
Gcd(a, b) == IF b = 0 THEN a ELSE Gcd(b, a % b)

RECURSIVE SumSeq(_)
SumSeq(s) == IF s = <<>> THEN 0 ELSE Head(s) + SumSeq(Tail(s))

\* ------------------------------------------------------------------ pandas
Labels == <<0, 1, 2>>

\* df[col]: KeyError when the column is missing
HasColumn(df, col) == col \in DOMAIN df

Keys(series) == {series[i][1] : i \in DOMAIN series}
Values(series) == [i \in DOMAIN series |-> series[i][2]]

\* Insertion of a pair into a sequence ordered by `before`, after the pairs
\* it does not precede (a stable sort).
RECURSIVE InsertPair(_, _, _)
InsertPair(s, p, byCount) ==
    IF s = <<>> THEN <<p>>
    ELSE LET h == Head(s)
             first == IF byCount THEN p[2] > h[2] ELSE p[1] < h[1]
         IN IF first THEN <<p>> \o s ELSE <<h>> \o InsertPair(Tail(s), p, byCount)

RECURSIVE SortPairs(_, _)
SortPairs(s, byCount) ==
    IF s = <<>> THEN <<>>
    ELSE InsertPair(SortPairs(SubSeq(s, 1, Len(s) - 1), byCount), s[Len(s)], byCount)

\* Series.sort_index()
sort_index(series) == SortPairs(series, FALSE)

Count(col, x) == Cardinality({i \in DOMAIN col : col[i] = x})

\* The distinct values of a column in order of first appearance
RECURSIVE Unique(_)
Unique(col) ==
    IF col = <<>> THEN <<>>
    ELSE LET r == Unique(SubSeq(col, 1, Len(col) - 1))
             x == col[Len(col)]
         IN IF \E i \in DOMAIN r : r[i] = x THEN r ELSE Append(r, x)

\* Series.value_counts(): one entry per value that occurs, most frequent first
value_counts(col) ==
    LET u == Unique(col)
    IN SortPairs([i \in DOMAIN u |-> <<u[i], Count(col, u[i])>>], TRUE)

\* series[label] = 0 for a label not in the index: appended at the end
SetItem(series, label, v) ==
    IF label \in Keys(series)
    THEN [i \in DOMAIN series |->
            IF series[i][1] = label THEN <<label, v>> ELSE series[i]]
    ELSE Append(series, <<label, v>>)

\* Lines 31-35 for one of the two distributions
RECURSIVE ZeroFill(_, _)
ZeroFill(dist, labels) ==
    IF labels = <<>> THEN dist
    ELSE LET l == Head(labels)
             d == IF l \notin Keys(dist) THEN SetItem(dist, l, 0) ELSE dist
         IN ZeroFill(d, Tail(labels))

\* Lines 27-35 without the second sort_index of lines 37-38
DistributionUnsorted(df) ==
    ZeroFill(sort_index(value_counts(df["sentiment"])), Labels)

\* Lines 27-38: the distribution handed to the chi-square test
Distribution(df) ==
    sort_index(ZeroFill(sort_index(value_counts(df["sentiment"])), Labels))

\* Series.str.len()
str_len(col) == [i \in DOMAIN col |-> Len(col[i])]

\* Series.mean(): nan for an empty series
mean(xs) == IF xs = <<>> THEN NaN ELSE Ratio(SumSeq(xs), Len(xs))

\* ------------------------------------------------------------------- scipy
\* floor(a * b / m) without the intermediate product a * b
MulDiv(a, b, m) == (a \div m) * b + ((a % m) * b) \div m

\* floor(Scale * exp(-n/d)) for n >= 0, d > 0: the reciprocal of the power
\* series of exp(n/d), summed in fixed point until its terms vanish.  From
\* n/d = 10 on the value is below 1/Scale.
RECURSIVE ExpSeries(_, _, _, _)
ExpSeries(n, d, k, term) ==
    IF term = 0 THEN 0
    ELSE term + ExpSeries(n, d, k + 1, MulDiv(term, n, d * (k + 1)))

ExpNeg(n, d) ==
    LET g == Gcd(n, d)
    IN IF n >= 10 * d THEN 0
       ELSE (Scale * Scale) \div ExpSeries(n \div g, d \div g, 0, Scale)

RECURSIVE Product(_)
Product(s) == IF s = <<>> THEN 1 ELSE Head(s) * Product(Tail(s))

\* scipy.stats.chisquare(f_obs, f_exp) on two arrays of equal length, with
\* k - 1 = 2 degrees of freedom, for which the survival function of the
\* chi-square distribution is exp(-x/2).  `strict` is the check of scipy
\* 1.7 and later that both arrays have the same sum (ValueError otherwise).
\* A zero expected count divides by zero: numpy yields inf for x/0 and nan
\* for 0/0, with a RuntimeWarning and no exception.
chisquare(f_obs, f_exp, strict) ==
    LET idx == DOMAIN f_obs
        zeros == {i \in idx : f_exp[i] = 0}
        den == Product(f_exp)
        num == SumSeq([i \in idx |->
                  (f_obs[i] - f_exp[i]) * (f_obs[i] - f_exp[i]) * (den \div f_exp[i])])
    IN IF strict /\ SumSeq(f_obs) # SumSeq(f_exp)
       THEN [raised |-> TRUE, statistic |-> NaN, pvalue |-> NaN]
       ELSE IF \E i \in zeros : f_obs[i] = 0
       THEN [raised |-> FALSE, statistic |-> NaN, pvalue |-> NaN]
       ELSE IF zeros # {}
       THEN [raised |-> FALSE, statistic |-> PosInf, pvalue |-> Num(0)]
       ELSE [raised |-> FALSE, statistic |-> Ratio(num, den),
             pvalue |-> Num(ExpNeg(num, 2 * den))]

\* The number of lattice paths from (0,0) to (i,j) all of whose points lie
\* strictly inside the band |x/n1 - y/n2| < h/(n1*n2).
RECURSIVE PathsInside(_, _, _, _, _)
PathsInside(i, j, n1, n2, h) ==
    IF Abs(i * n2 - j * n1) >= h THEN 0
    ELSE IF i = 0 /\ j = 0 THEN 1
    ELSE (IF i > 0 THEN PathsInside(i - 1, j, n1, n2, h) ELSE 0)
       + (IF j > 0 THEN PathsInside(i, j - 1, n1, n2, h) ELSE 0)

\* scipy.stats.ks_2samp(data1, data2), two-sided, exact method (the one
\* scipy selects for samples of at most 10000 values): the statistic is the
\* largest distance between the two empirical distribution functions, the
\* p-value the share of the orderings of the pooled sample whose distance is
\* at least as large.  An empty sample raises ValueError.
ks_2samp(data1, data2) ==
    LET n1 == Len(data1)
        n2 == Len(data2)
        pooled == {data1[i] : i \in DOMAIN data1} \cup {data2[i] : i \in DOMAIN data2}
        cdf(data, x) == Cardinality({i \in DOMAIN data : data[i] <= x})
        diffs == {Abs(n2 * cdf(data1, x) - n1 * cdf(data2, x)) : x \in pooled}
        h == CHOOSE m \in diffs : \A o \in diffs : o <= m
        total == PathsInside(n1, n2, n1, n2, n1 * n2 + 1)
        inside == PathsInside(n1, n2, n1, n2, h)
    IN IF n1 = 0 \/ n2 = 0
       THEN [raised |-> TRUE, statistic |-> NaN, pvalue |-> NaN]
       ELSE IF h = 0
       THEN [raised |-> FALSE, statistic |-> Num(0), pvalue |-> Num(Scale)]
       ELSE [raised |-> FALSE, statistic |-> Ratio(h, n1 * n2),
             pvalue |-> Ratio(total - inside, total)]

\* ------------------------------------------------------------------- files
ShortReview == "awful"
LongReview == "This product is great. Highly recommend!"

ColumnSets == {{"sentiment", "review"}, {"sentiment"}, {"review"}}

Rows(content) == content.counts[1] + content.counts[2] + content.counts[3]

\* The content of a CSV file: how many records carry each label, how many
\* of the records carry the long review text (the others the short one),
\* and which columns the file has.  Records are kept in label order; what a
\* missing column would hold is left out of the description.
Contents(minRows) ==
    {c \in [counts : [1..3 -> 0..MaxRecords], long : 0..MaxRecords,
            columns : ColumnSets] :
        /\ Rows(c) \in minRows..MaxRecords
        /\ c.long <= Rows(c)
        /\ "review" \notin c.columns => c.long = 0
        /\ "sentiment" \notin c.columns => c.counts[2] = 0 /\ c.counts[3] = 0}

\* pd.read_csv(path): a DataFrame, column name -> sequence of values
read_csv(content) ==
    LET n == Rows(content)
        c == content.counts
        sentiment == [i \in 1..n |->
                        IF i <= c[1] THEN Labels[1]
                        ELSE IF i <= c[1] + c[2] THEN Labels[2] ELSE Labels[3]]
        review == [i \in 1..n |->
                        IF i <= n - content.long THEN ShortReview ELSE LongReview]
    IN [col \in content.columns |-> IF col = "sentiment" THEN sentiment ELSE review]

\* ---------------------------------------------------------------- detector
DefaultThreshold == 500

\* d.setdefault(k, v): an entry already present is kept
DictSetDefault(d, k, v) == [x \in DOMAIN d \cup {k} |-> IF x \in DOMAIN d THEN d[x] ELSE v]

\* d[k] = v on a Python dict
DictSet(d, k, v) == [x \in DOMAIN d \cup {k} |-> IF x = k THEN v ELSE d[x]]

EmptyDict == [x \in {} |-> FALSE]

\* bool(p_value <= self.threshold)
VerdictAtMost(p_value, threshold) == Lt(p_value, threshold) \/ p_value = threshold

\* Lines 44 and 67: bool(p_value < self.threshold)
Verdict(p_value, threshold) == Lt(p_value, threshold)

\* Lines 27-51 of detect_label_drift, up to the value stored in the report
LabelEntry(threshold, old_data, new_data, strict) ==
    IF ~HasColumn(old_data, "sentiment") \/ ~HasColumn(new_data, "sentiment")
    THEN [raised |-> TRUE, error |-> "KeyError"]
    ELSE LET old_dist == Distribution(old_data)
             new_dist == Distribution(new_data)
             test == chisquare(Values(new_dist), Values(old_dist), strict)
         IN IF test.raised
            THEN [raised |-> TRUE, error |-> "ValueError"]
            ELSE [raised |-> FALSE,
                  entry |-> [chi2_statistic |-> test.statistic,
                             p_value |-> test.pvalue,
                             drift_detected |-> Verdict(test.pvalue, threshold),
                             old_distribution |-> old_dist,
                             new_distribution |-> new_dist]]

\* Lines 60-75 of detect_text_length_drift, up to the value stored
TextEntry(threshold, old_data, new_data) ==
    IF ~HasColumn(old_data, "review") \/ ~HasColumn(new_data, "review")
    THEN [raised |-> TRUE, error |-> "KeyError"]
    ELSE LET old_lengths == str_len(old_data["review"])
             new_lengths == str_len(new_data["review"])
             test == ks_2samp(old_lengths, new_lengths)
         IN IF test.raised
            THEN [raised |-> TRUE, error |-> "ValueError"]
            ELSE [raised |-> FALSE,
                  entry |-> [ks_statistic |-> test.statistic,
                             p_value |-> test.pvalue,
                             drift_detected |-> Verdict(test.pvalue, threshold),
                             old_mean_length |-> mean(old_lengths),
                             new_mean_length |-> mean(new_lengths)]]

\* ------------------------------------------------------------------- state
VARIABLES
    files,           \* the CSV files on disk: file name -> content
    scipy_strict,    \* whether the installed scipy checks the sums in chisquare
    threshold,       \* self.threshold
    drift_detected,  \* self.drift_detected
    drift_metrics,   \* self.drift_metrics, the report
    now,             \* the clock datetime.now() reads
    frames           \* caller -> the frame of its check_drift call

vars == <<files, scipy_strict, threshold, drift_detected, drift_metrics, now, frames>>

FileNames == {"data/old_reviews.csv", "data/new_reviews.csv"}
Callers == {1, 2}
Main == 1

Thresholds == {Num(DefaultThreshold), Num(Scale \div 2), Num(Scale + Scale \div 2)}

NoData == [col \in {} |-> <<>>]
NoResult == [raised |-> FALSE]

IdleFrame ==
    [pc |-> "idle", old_data_path |-> "", new_data_path |-> "",
     old_data |-> NoData, new_data |-> NoData,
     lab |-> "todo", txt |-> "todo", lab_res |-> NoResult, txt_res |-> NoResult,
     label_drift |-> FALSE, text_drift |-> FALSE, read |-> FALSE,
     stamped |-> 0, ret |-> FALSE, error |-> "", before |-> "none"]

\* Everything a step of check_drift can read or write besides its frame
Shared ==
    [files |-> files, scipy_strict |-> scipy_strict, threshold |-> threshold,
     drift_detected |-> drift_detected, drift_metrics |-> drift_metrics, now |-> now]

\* Lines 19-21: DriftDetector(threshold)
Construct(t) == [threshold |-> t, drift_detected |-> FALSE, drift_metrics |-> EmptyDict]

\* ------------------------------------------------- the steps of check_drift
\* Each step maps the shared state sh and the caller's frame f to the pair
\* after the step.  An exception ends the call: pc = "raised".
Raise(sh, f, error) == [sh |-> sh, f |-> [f EXCEPT !.pc = "raised", !.error = error]]

\* The call itself: the frame with its two arguments.  `before` records the
\* overall_drift the report held when the call was made (history only).
Enter(sh, old_data_path, new_data_path) ==
    [IdleFrame EXCEPT !.pc = "load", !.old_data_path = old_data_path,
                      !.new_data_path = new_data_path,
                      !.before = IF "overall_drift" \notin DOMAIN sh.drift_metrics
                                 THEN "none"
                                 ELSE IF sh.drift_metrics["overall_drift"]
                                 THEN "drift" ELSE "no drift"]

\* Lines 83-84
DoLoad(sh, f) ==
    [sh |-> sh,
     f |-> [f EXCEPT !.pc = "tests",
                     !.old_data = read_csv(sh.files[f.old_data_path]),
                     !.new_data = read_csv(sh.files[f.new_data_path])]]

\* After a test has stored its result: line 89 once both tests are done
AfterTest(f) == IF f.lab = "done" /\ f.txt = "done" THEN [f EXCEPT !.pc = "or"] ELSE f

\* Line 86, the call's lines 27-44: the test's locals
DoLabelCompute(sh, f) ==
    LET r == LabelEntry(sh.threshold, f.old_data, f.new_data, sh.scipy_strict)
    IN IF r.raised THEN Raise(sh, f, r.error)
       ELSE [sh |-> sh, f |-> [f EXCEPT !.lab = "computed", !.lab_res = r]]

\* Line 86, the call's lines 46-54 and the assignment of its result
DoLabelStore(sh, f) ==
    [sh |-> [sh EXCEPT !.drift_metrics =
                DictSet(sh.drift_metrics, "label_drift", f.lab_res.entry)],
     f |-> AfterTest([f EXCEPT !.lab = "done",
                               !.label_drift = f.lab_res.entry.drift_detected])]

\* Line 87, the call's lines 60-67
DoTextCompute(sh, f) ==
    LET r == TextEntry(sh.threshold, f.old_data, f.new_data)
    IN IF r.raised THEN Raise(sh, f, r.error)
       ELSE [sh |-> sh, f |-> [f EXCEPT !.txt = "computed", !.txt_res = r]]

\* Line 87, the call's lines 69-77 and the assignment of its result
DoTextStore(sh, f) ==
    [sh |-> [sh EXCEPT !.drift_metrics =
                DictSet(sh.drift_metrics, "text_length_drift", f.txt_res.entry)],
     f |-> AfterTest([f EXCEPT !.txt = "done",
                               !.text_drift = f.txt_res.entry.drift_detected])]

\* label_drift and text_drift
AggregateAnd(label_drift, text_drift) == label_drift /\ text_drift

\* Line 89: label_drift or text_drift
Aggregate(label_drift, text_drift) == label_drift \/ text_drift

DoOr(sh, f) ==
    [sh |-> [sh EXCEPT !.drift_detected = Aggregate(f.label_drift, f.text_drift)],
     f |-> [f EXCEPT !.pc = "overall_read"]]

\* Line 90, right-hand side: bool(self.drift_detected)
DoOverallRead(sh, f) ==
    [sh |-> sh, f |-> [f EXCEPT !.pc = "overall_write", !.read = sh.drift_detected]]

\* Line 90, the assignment
DoOverallWrite(sh, f) ==
    [sh |-> [sh EXCEPT !.drift_metrics =
                DictSet(sh.drift_metrics, "overall_drift", f.read)],
     f |-> [f EXCEPT !.pc = "stamp"]]

\* Line 91: the timestamp is the reading of the clock, which then moves on
DoStamp(sh, f) ==
    [sh |-> [sh EXCEPT !.drift_metrics = DictSet(sh.drift_metrics, "timestamp", sh.now),
                       !.now = sh.now + 1],
     f |-> [f EXCEPT !.pc = "ret", !.stamped = sh.now]]

\* return label_drift
DoReturnLabel(sh, f) ==
    [sh |-> sh, f |-> [f EXCEPT !.pc = "returned", !.ret = f.label_drift]]

\* Line 93: return self.drift_detected
DoReturn(sh, f) ==
    [sh |-> sh, f |-> [f EXCEPT !.pc = "returned", !.ret = sh.drift_detected]]

Finished(f) == f.pc \in {"returned", "raised"}

\* The next step of a call in the order of the code: line 86 before line 87
StepInOrder(sh, f) ==
    CASE f.pc = "load" -> DoLoad(sh, f)
      [] f.pc = "tests" /\ f.lab = "todo" -> DoLabelCompute(sh, f)
      [] f.pc = "tests" /\ f.lab = "computed" -> DoLabelStore(sh, f)
      [] f.pc = "tests" /\ f.lab = "done" /\ f.txt = "todo" -> DoTextCompute(sh, f)
      [] f.pc = "tests" /\ f.lab = "done" /\ f.txt = "computed" -> DoTextStore(sh, f)
      [] f.pc = "or" -> DoOr(sh, f)
      [] f.pc = "overall_read" -> DoOverallRead(sh, f)
      [] f.pc = "overall_write" -> DoOverallWrite(sh, f)
      [] f.pc = "stamp" -> DoStamp(sh, f)
      [] f.pc = "ret" -> DoReturn(sh, f)

\* A call run from its current step to its end with no other caller's step
\* in between
RECURSIVE RunCall(_, _)
RunCall(sh, f) ==
    IF Finished(f) THEN [sh |-> sh, f |-> f]
    ELSE LET r == StepInOrder(sh, f) IN RunCall(r.sh, r.f)

\* Lines 79-93 as one uninterrupted call
check_drift(sh, old_data_path, new_data_path) ==
    RunCall(sh, Enter(sh, old_data_path, new_data_path))

\* ----------------------------------------------------------------- actions
TypeOK ==
    /\ DOMAIN files = FileNames
    /\ scipy_strict \in BOOLEAN
    /\ threshold \in Thresholds
    /\ drift_detected \in BOOLEAN
    /\ DOMAIN drift_metrics \subseteq
          {"label_drift", "text_length_drift", "overall_drift", "timestamp"}
    /\ now \in 0..MaxTime
    /\ DOMAIN frames = Callers

\* The state after DriftDetector(t), before any call, with the reference
\* file drawn from `references` and the candidate file from `candidates`
Fresh(references, candidates, stricts) ==
    /\ \E r \in references, c \in candidates :
          files = [name \in FileNames |->
                      IF name = "data/old_reviews.csv" THEN r ELSE c]
    /\ scipy_strict \in stricts
    /\ \E t \in Thresholds :
          LET self == Construct(t)
          IN /\ threshold = self.threshold
             /\ drift_detected = self.drift_detected
             /\ drift_metrics = self.drift_metrics
    /\ now = 0
    /\ frames = [c \in Callers |-> IdleFrame]

\* The variables after a step (or a whole call) of caller c with outcome r
Becomes(c, r) ==
    /\ drift_detected' = r.sh.drift_detected
    /\ drift_metrics' = r.sh.drift_metrics
    /\ now' = r.sh.now
    /\ frames' = [frames EXCEPT ![c] = r.f]
    /\ UNCHANGED <<files, scipy_strict, threshold>>

InProgress(c) == frames[c].pc \notin {"idle", "returned", "raised"}

\* detector.check_drift(old_data_path, new_data_path), called while no other
\* call is running and run to its end
CheckDrift(old_data_path, new_data_path) ==
    /\ now < MaxTime
    /\ \A c \in Callers : ~InProgress(c)
    /\ Becomes(Main, check_drift(Shared, old_data_path, new_data_path))

\* The same call taken step by step by caller c
Call(c, old_data_path, new_data_path) ==
    /\ frames[c].pc = "idle"
    /\ Becomes(c, [sh |-> Shared, f |-> Enter(Shared, old_data_path, new_data_path)])

Load(c) ==
    /\ frames[c].pc = "load"
    /\ Becomes(c, DoLoad(Shared, frames[c]))

LabelCompute(c) ==
    /\ frames[c].pc = "tests" /\ frames[c].lab = "todo"
    /\ Becomes(c, DoLabelCompute(Shared, frames[c]))

LabelStore(c) ==
    /\ frames[c].pc = "tests" /\ frames[c].lab = "computed"
    /\ Becomes(c, DoLabelStore(Shared, frames[c]))

TextCompute(c) ==
    /\ frames[c].pc = "tests" /\ frames[c].lab = "done" /\ frames[c].txt = "todo"
    /\ Becomes(c, DoTextCompute(Shared, frames[c]))

TextStore(c) ==
    /\ frames[c].pc = "tests" /\ frames[c].txt = "computed"
    /\ Becomes(c, DoTextStore(Shared, frames[c]))

Or(c) ==
    /\ frames[c].pc = "or"
    /\ Becomes(c, DoOr(Shared, frames[c]))

OverallRead(c) ==
    /\ frames[c].pc = "overall_read"
    /\ Becomes(c, DoOverallRead(Shared, frames[c]))

OverallWrite(c) ==
    /\ frames[c].pc = "overall_write"
    /\ Becomes(c, DoOverallWrite(Shared, frames[c]))

Stamp(c) ==
    /\ frames[c].pc = "stamp"
    /\ Becomes(c, DoStamp(Shared, frames[c]))

Return(c) ==
    /\ frames[c].pc = "ret"
    /\ Becomes(c, DoReturn(Shared, frames[c]))

\* The continuous test started without waiting for the categorical one: the
\* order of lines 86 and 87 exchanged, or the two tests run side by side
TextComputeEarly(c) ==
    /\ frames[c].pc = "tests" /\ frames[c].lab # "done" /\ frames[c].txt = "todo"
    /\ Becomes(c, DoTextCompute(Shared, frames[c]))

\* ---------------------------------------------------------- specifications
\* A baseline file: both columns, every label present
Baselines ==
    {c \in Contents(MaxRecords) :
        /\ c.columns = {"sentiment", "review"}
        /\ \A i \in 1..3 : c.counts[i] > 0}

\* Calls one after the other on one detector, each on any two of the files
\* in either role.  Both files hold MaxRecords rows (the repository writes
\* both with one n_samples), so that the sums chisquare compares are equal
\* whatever the version of scipy; data/old_reviews.csv is a baseline, the
\* other file is any file.
Init == Fresh(Baselines, Contents(MaxRecords), {TRUE})

Next == \E old_data_path, new_data_path \in FileNames :
            CheckDrift(old_data_path, new_data_path)

Spec == Init /\ [][Next]_vars

\* One call on a fresh detector, on files of any size up to MaxRecords rows
InitUnit == Fresh(Contents(0), Contents(0), BOOLEAN)

NextUnit ==
    /\ now = 0
    /\ CheckDrift("data/old_reviews.csv", "data/new_reviews.csv")

SpecUnit == InitUnit /\ [][NextUnit]_vars

\* One call on a fresh detector whose two tests may run in either order, or
\* side by side
NextAnyOrder ==
    \/ Call(Main, "data/old_reviews.csv", "data/new_reviews.csv")
    \/ Load(Main)
    \/ LabelCompute(Main)
    \/ LabelStore(Main)
    \/ TextCompute(Main)
    \/ TextComputeEarly(Main)
    \/ TextStore(Main)
    \/ Or(Main)
    \/ OverallRead(Main)
    \/ OverallWrite(Main)
    \/ Stamp(Main)
    \/ Return(Main)

SpecAnyOrder == Init /\ [][NextAnyOrder]_vars

\* Two callers, one call each on the same fresh detector, with no
\* synchronization between their steps
Balanced == [counts |-> <<1, 1, 1>>, long |-> 0, columns |-> {"sentiment", "review"}]
Skewed == [counts |-> <<3, 0, 0>>, long |-> 0, columns |-> {"sentiment", "review"}]
Lengthened == [counts |-> <<1, 1, 1>>, long |-> 3, columns |-> {"sentiment", "review"}]

InitConc ==
    Fresh({Balanced, Skewed, Lengthened}, {Balanced, Skewed, Lengthened}, {TRUE})

NextConc ==
    \E c \in Callers :
        \/ \E old_data_path, new_data_path \in FileNames :
              Call(c, old_data_path, new_data_path)
        \/ Load(c)
        \/ LabelCompute(c)
        \/ LabelStore(c)
        \/ TextCompute(c)
        \/ TextStore(c)
        \/ Or(c)
        \/ OverallRead(c)
        \/ OverallWrite(c)
        \/ Stamp(c)
        \/ Return(c)

SpecConc == InitConc /\ [][NextConc]_vars

\* ------------------------------------------------------------- properties
Last == frames[Main]
Returned == Last.pc = "returned"

SlotKeys == {"label_drift", "text_length_drift", "overall_drift"}
AllKeys == SlotKeys \cup {"timestamp"}

\* The report without its timestamp
Strip(report) == [k \in DOMAIN report \ {"timestamp"} |-> report[k]]

\* The shared state with a detector just constructed with the same threshold
FreshDetector ==
    LET self == Construct(threshold)
    IN [Shared EXCEPT !.drift_detected = self.drift_detected,
                      !.drift_metrics = self.drift_metrics]

\* C1: after every successful check_drift the returned value and the stored
\* overall_drift both equal label_drift.drift_detected OR
\* text_length_drift.drift_detected, and these two booleans are the ones the
\* two tests of that call returned.
C1_OverallIsOr ==
    Returned =>
        LET l == drift_metrics["label_drift"].drift_detected
            t == drift_metrics["text_length_drift"].drift_detected
        IN /\ l = Last.label_drift
           /\ t = Last.text_drift
           /\ Last.ret = (l \/ t)
           /\ drift_metrics["overall_drift"] = (l \/ t)
           /\ drift_detected = (l \/ t)

\* C1 witness: a successful check in which only the continuous test found
\* drift, so that OR and AND differ
C1_Witness ==
    /\ Returned
    /\ ~drift_metrics["label_drift"].drift_detected
    /\ drift_metrics["text_length_drift"].drift_detected
    /\ Last.ret

\* C2: after a successful check_drift, whatever the detector had checked
\* before, the report (timestamp excluded) and the returned boolean are those
\* a freshly constructed detector with the same threshold produces from the
\* same two files.
C2_ReportIsLastCheck ==
    Returned =>
        LET alone == check_drift(FreshDetector, Last.old_data_path, Last.new_data_path)
        IN /\ alone.f.pc = "returned"
           /\ Strip(drift_metrics) = Strip(alone.sh.drift_metrics)
           /\ Last.ret = alone.f.ret
           /\ drift_detected = alone.sh.drift_detected

\* C2 witness: a successful check finding no drift on a detector whose
\* report said drift when the call was made
C2_Witness ==
    /\ Returned
    /\ Last.before = "drift"
    /\ ~Last.ret
    /\ ~drift_metrics["overall_drift"]

\* C3: between calls the report is empty or is the whole report of one
\* check: all of label_drift, text_length_drift, overall_drift and timestamp,
\* as one check of two of the files produces them.
C3_NoPartialReport ==
    (\A c \in Callers : ~InProgress(c)) =>
        \/ DOMAIN drift_metrics = {}
        \/ /\ DOMAIN drift_metrics = AllKeys
           /\ \E p, q \in FileNames :
                LET alone == check_drift(FreshDetector, p, q)
                IN /\ alone.f.pc = "returned"
                   /\ Strip(drift_metrics) = Strip(alone.sh.drift_metrics)

\* The inputs the two tests are specified for: both columns in both files, no
\* file empty, and every label present in the reference file
ValidInputs(old_data, new_data) ==
    /\ \A df \in {old_data, new_data} :
          /\ DOMAIN df = {"sentiment", "review"}
          /\ df["sentiment"] # <<>>
    /\ \A i \in DOMAIN Labels : Count(old_data["sentiment"], Labels[i]) > 0

InUnitInterval(p) == p.k = "num" /\ 0 <= p.v /\ p.v <= Scale

\* C4: on valid inputs both tests record a p_value in [0,1] and record and
\* return drift_detected = (p_value < threshold), a strict comparison.
C4_PValueAndVerdict ==
    Returned /\ ValidInputs(Last.old_data, Last.new_data) =>
        LET lab == drift_metrics["label_drift"]
            txt == drift_metrics["text_length_drift"]
        IN /\ InUnitInterval(lab.p_value)
           /\ InUnitInterval(txt.p_value)
           /\ lab.drift_detected = (lab.p_value.v < threshold.v)
           /\ txt.drift_detected = (txt.p_value.v < threshold.v)
           /\ Last.label_drift = lab.drift_detected
           /\ Last.text_drift = txt.drift_detected

\* C4 witness: valid inputs on which the continuous test's p_value equals the
\* threshold of a detector whose threshold lies in (0,1): no drift
C4_Witness ==
    /\ Returned
    /\ ValidInputs(Last.old_data, Last.new_data)
    /\ 0 < threshold.v /\ threshold.v < Scale
    /\ drift_metrics["text_length_drift"].p_value = threshold
    /\ ~drift_metrics["text_length_drift"].drift_detected

\* Some label of the fixed domain does not occur in the reference file
ZeroReferenceCount(old_data) ==
    /\ "sentiment" \in DOMAIN old_data
    /\ \E i \in DOMAIN Labels : Count(old_data["sentiment"], Labels[i]) = 0

\* C5: when a label has count zero in the reference file, the categorical
\* test raises, or records a finite statistic (an epsilon in place of the
\* zero); it never records a result computed from a zero expected count.
C5_ZeroReferenceRejected ==
    /\ Finished(Last)
    /\ ZeroReferenceCount(Last.old_data)
    /\ "sentiment" \in DOMAIN Last.new_data
    => \/ Last.pc = "raised" /\ "label_drift" \notin DOMAIN drift_metrics
       \/ /\ "label_drift" \in DOMAIN drift_metrics
          /\ drift_metrics["label_drift"].chi2_statistic.k = "num"

\* C6: no check_drift is ever evaluated against a detector whose threshold
\* lies outside the open interval (0,1).
C6_NoCheckOutsideUnitInterval ==
    Finished(Last) => 0 < threshold.v /\ threshold.v < Scale

\* C7: the two distributions recorded by detect_label_drift hold exactly the
\* labels 0, 1, 2 in ascending order, and the counts of each sum to the
\* number of records of its file.
C7_Distributions ==
    "label_drift" \in DOMAIN drift_metrics =>
        LET lab == drift_metrics["label_drift"]
            Whole(dist, df) ==
                /\ [i \in DOMAIN dist |-> dist[i][1]] = <<0, 1, 2>>
                /\ \A i \in DOMAIN dist : dist[i][2] = Count(df["sentiment"], dist[i][1])
                /\ SumSeq(Values(dist)) = Len(df["sentiment"])
        IN /\ Whole(lab.old_distribution, Last.old_data)
           /\ Whole(lab.new_distribution, Last.new_data)

\* C7 witness: distributions recorded for a reference file without label 1
\* and a candidate file with a different number of records
C7_Witness ==
    /\ "label_drift" \in DOMAIN drift_metrics
    /\ Count(Last.old_data["sentiment"], 1) = 0
    /\ Count(Last.old_data["sentiment"], 2) > 0
    /\ Len(Last.old_data["sentiment"]) # Len(Last.new_data["sentiment"])

\* Both files have the same label counts and the same multiset of lengths
SameData(old_data, new_data) ==
    /\ DOMAIN old_data = {"sentiment", "review"}
    /\ DOMAIN new_data = {"sentiment", "review"}
    /\ old_data["sentiment"] # <<>>
    /\ \A i \in DOMAIN Labels :
          Count(old_data["sentiment"], Labels[i]) = Count(new_data["sentiment"], Labels[i])
    /\ \A n \in {Len(ShortReview), Len(LongReview)} :
          Count(str_len(old_data["review"]), n) = Count(str_len(new_data["review"]), n)

\* C8: on two non-empty files with identical label counts and identical
\* multisets of text lengths the chi-square statistic is 0 with p_value 1.0,
\* the KS statistic is 0, neither test records drift and check_drift returns
\* false, for every threshold in (0,1).
C8_IdenticalDataNoDrift ==
    /\ Finished(Last)
    /\ SameData(Last.old_data, Last.new_data)
    /\ 0 < threshold.v /\ threshold.v < Scale
    =>
        /\ Returned
        /\ drift_metrics["label_drift"].chi2_statistic = Num(0)
        /\ drift_metrics["label_drift"].p_value = Num(Scale)
        /\ drift_metrics["text_length_drift"].ks_statistic = Num(0)
        /\ ~drift_metrics["label_drift"].drift_detected
        /\ ~drift_metrics["text_length_drift"].drift_detected
        /\ ~Last.ret

\* The slots of the report that the tests and the aggregation write
Slots(report) == [k \in DOMAIN report \cap SlotKeys |-> report[k]]

\* C9: however the steps of the two tests of one check_drift are ordered,
\* the call ends as it ends in the order of the code, with the same
\* label_drift and text_length_drift slots, the same overall_drift and the
\* same return value.
C9_OrderIndependent ==
    Finished(Last) =>
        LET inorder == check_drift([FreshDetector EXCEPT !.now = 0],
                                   Last.old_data_path, Last.new_data_path)
        IN /\ Last.pc = inorder.f.pc
           /\ Slots(drift_metrics) = Slots(inorder.sh.drift_metrics)
           /\ Last.ret = inorder.f.ret

\* What caller c's own two tests found, OR-ed
OwnVerdict(c) == frames[c].label_drift \/ frames[c].text_drift

\* The report caller c's call produces when it runs alone
OwnReport(c) ==
    [k \in AllKeys |->
        CASE k = "label_drift" -> frames[c].lab_res.entry
          [] k = "text_length_drift" -> frames[c].txt_res.entry
          [] k = "overall_drift" -> OwnVerdict(c)
          [] k = "timestamp" -> frames[c].stamped]

BothReturned == \A c \in Callers : frames[c].pc = "returned"

\* C10 as stated: once two interleaved calls have both returned, the report
\* is the whole report of one of them, and each call has returned the OR of
\* its own two test results.
C10_LastWriterWins ==
    BothReturned =>
        /\ \E c \in Callers : drift_metrics = OwnReport(c)
        /\ \A c \in Callers : frames[c].ret = OwnVerdict(c)

\* C10 as amended: once two interleaved calls have both returned, every
\* entry of the report is the entry one of the two calls wrote, and each
\* call has returned the OR of the two test results of one of the two
\* calls; neither the entries nor the returned value need come from the
\* same call.
C10_EntryWise ==
    BothReturned =>
        /\ DOMAIN drift_metrics = AllKeys
        /\ \A k \in AllKeys : \E c \in Callers : drift_metrics[k] = OwnReport(c)[k]
        /\ \A c \in Callers : \E d \in Callers : frames[c].ret = OwnVerdict(d)
        /\ \E d \in Callers : drift_detected = OwnVerdict(d)

\* C10 witness: both calls have returned, the report pairs the label_drift
\* of one call with the overall_drift of the other, and a call has returned
\* a value that is not the OR of its own test results
C10_Witness ==
    /\ BothReturned
    /\ \A c \in Callers : drift_metrics # OwnReport(c)
    /\ \E c \in Callers : frames[c].ret # OwnVerdict(c)

====
